---- MODULE Spec2Model ----
(***************************************************************************)
(* The WebSocket handshake machine of tungstenite (src/handshake/machine.rs *)
(* and src/handshake/mod.rs): HandshakeMachine::single_round, the attack   *)
(* guard AttackCheck, and the two drivers MidHandshake::handshake and      *)
(* NonOwningMidHandshake::handshake, run against a non-blocking stream.    *)
(*                                                                         *)
(* Byte strings are kept run-length encoded: a sequence of runs            *)
(* [b |-> byte, n |-> count] with n >= 1 and no two neighbouring runs of   *)
(* the same byte.  The encoding is canonical, so equality of encodings is  *)
(* equality of byte strings, and a read of 70000 bytes is one run.         *)
(***************************************************************************)
EXTENDS Integers, Sequences, FiniteSets, TLC

(* ------------------------------ bounds -------------------------------- *)
\* longest explicit input stream whose every chunking is explored
MaxInput == 3
\* longest payload a role hands to start_write
MaxPayload == 2
\* number of stages a role may ask for before it must finish or fail
MaxStages == 2

(* --------------------------- byte strings ----------------------------- *)
\* "a", "b": ordinary bytes; "T": the end of a handshake message (the blank
\* line closing the HTTP header); "X": a byte the parser rejects.  The peer
\* sends InByte, the roles write "a" and "b".
Byte == {"a", "b", "T", "X"}
InByte == {"a", "T", "X"}

Empty == <<>>

RECURSIVE BLen(_)
BLen(s) == IF s = <<>> THEN 0 ELSE s[1].n + BLen(Tail(s))

BCat(s, t) ==
    IF s = <<>> THEN t
    ELSE IF t = <<>> THEN s
    ELSE IF s[Len(s)].b = t[1].b
         THEN SubSeq(s, 1, Len(s) - 1)
              \o <<[b |-> t[1].b, n |-> s[Len(s)].n + t[1].n]>>
              \o Tail(t)
         ELSE s \o t

RECURSIVE BTake(_, _)
BTake(s, k) ==
    IF k <= 0 \/ s = <<>> THEN <<>>
    ELSE IF s[1].n <= k THEN <<s[1]>> \o BTake(Tail(s), k - s[1].n)
    ELSE <<[b |-> s[1].b, n |-> k]>>

RECURSIVE BDrop(_, _)
BDrop(s, k) ==
    IF k <= 0 \/ s = <<>> THEN s
    ELSE IF s[1].n <= k THEN BDrop(Tail(s), k - s[1].n)
    ELSE <<[b |-> s[1].b, n |-> s[1].n - k]>> \o Tail(s)

RECURSIVE FromSeq(_)
FromSeq(q) ==
    IF q = <<>> THEN <<>>
    ELSE BCat(<<[b |-> q[1], n |-> 1]>>, FromSeq(Tail(q)))

Run(b, n) == IF n = 0 THEN <<>> ELSE <<[b |-> b, n |-> n]>>

SeqsUpTo(S, k) == UNION {[1..m -> S] : m \in 0..k}

(* ------------------------- the parse contract ------------------------- *)
\* TryParse::try_parse on the unconsumed view of the buffer: Ok(None) while
\* the message is incomplete, Ok(Some((size, obj))) when a message of `size`
\* bytes is complete, Err on a syntax error.  A message is the bytes up to
\* and including the first "T"; its object is the bytes before that "T";
\* a byte "X" inside the message is a syntax error.
RECURSIVE FirstSpecial(_, _)
FirstSpecial(data, i) ==
    IF i > Len(data) THEN 0
    ELSE IF data[i].b \in {"T", "X"} THEN i
    ELSE FirstSpecial(data, i + 1)

try_parse(data) ==
    LET i == FirstSpecial(data, 1) IN
    IF i = 0 THEN [tag |-> "None", size |-> 0, obj |-> Empty]
    ELSE IF data[i].b = "X" THEN [tag |-> "Err", size |-> 0, obj |-> Empty]
    ELSE LET obj == SubSeq(data, 1, i - 1) IN
         [tag |-> "Some", size |-> BLen(obj) + 1, obj |-> obj]

(* ------------------------------ the guard ----------------------------- *)
MAX_BYTES == 65536
MAX_PACKETS == 512
MIN_PACKET_SIZE == 128
MIN_PACKET_CHECK_THRESHOLD == 64

AttackCheck_new == [number_of_packets |-> 0, number_of_bytes |-> 0]

\* (the bug: the packet-count rule is tried before the byte-count rule)
check_incoming_packet_size_PacketsFirst(self, size) ==
    LET ac == [number_of_packets |-> self.number_of_packets + 1,
               number_of_bytes   |-> self.number_of_bytes + size]
    IN  IF ac.number_of_packets > MAX_PACKETS
        THEN [ac |-> ac, err |-> "AttackAttempt", rule |-> "MAX_PACKETS"]
        ELSE IF ac.number_of_bytes > MAX_BYTES
        THEN [ac |-> ac, err |-> "AttackAttempt", rule |-> "MAX_BYTES"]
        ELSE IF ac.number_of_packets > MIN_PACKET_CHECK_THRESHOLD
                /\ ac.number_of_packets * MIN_PACKET_SIZE > ac.number_of_bytes
        THEN [ac |-> ac, err |-> "AttackAttempt", rule |-> "MIN_PACKET_SIZE"]
        ELSE [ac |-> ac, err |-> "None", rule |-> "none"]

\* (the bug: the small-packet rule looks at the size of this packet, not at
\* the average)
check_incoming_packet_size_PerPacket(self, size) ==
    LET ac == [number_of_packets |-> self.number_of_packets + 1,
               number_of_bytes   |-> self.number_of_bytes + size]
    IN  IF ac.number_of_bytes > MAX_BYTES
        THEN [ac |-> ac, err |-> "AttackAttempt", rule |-> "MAX_BYTES"]
        ELSE IF ac.number_of_packets > MAX_PACKETS
        THEN [ac |-> ac, err |-> "AttackAttempt", rule |-> "MAX_PACKETS"]
        ELSE IF ac.number_of_packets > MIN_PACKET_CHECK_THRESHOLD
                /\ MIN_PACKET_SIZE > size
        THEN [ac |-> ac, err |-> "AttackAttempt", rule |-> "MIN_PACKET_SIZE"]
        ELSE [ac |-> ac, err |-> "None", rule |-> "none"]

\* (the bug: the byte counter is set to the size, not advanced by it)
check_incoming_packet_size_LastSize(self, size) ==
    LET ac == [number_of_packets |-> self.number_of_packets + 1,
               number_of_bytes   |-> size]
    IN  IF ac.number_of_bytes > MAX_BYTES
        THEN [ac |-> ac, err |-> "AttackAttempt", rule |-> "MAX_BYTES"]
        ELSE IF ac.number_of_packets > MAX_PACKETS
        THEN [ac |-> ac, err |-> "AttackAttempt", rule |-> "MAX_PACKETS"]
        ELSE IF ac.number_of_packets > MIN_PACKET_CHECK_THRESHOLD
                /\ ac.number_of_packets * MIN_PACKET_SIZE > ac.number_of_bytes
        THEN [ac |-> ac, err |-> "AttackAttempt", rule |-> "MIN_PACKET_SIZE"]
        ELSE [ac |-> ac, err |-> "None", rule |-> "none"]

\* (the bug: the warm-up threshold is tested with >=)
check_incoming_packet_size_ThresholdInclusive(self, size) ==
    LET ac == [number_of_packets |-> self.number_of_packets + 1,
               number_of_bytes   |-> self.number_of_bytes + size]
    IN  IF ac.number_of_bytes > MAX_BYTES
        THEN [ac |-> ac, err |-> "AttackAttempt", rule |-> "MAX_BYTES"]
        ELSE IF ac.number_of_packets > MAX_PACKETS
        THEN [ac |-> ac, err |-> "AttackAttempt", rule |-> "MAX_PACKETS"]
        ELSE IF ac.number_of_packets >= MIN_PACKET_CHECK_THRESHOLD
                /\ ac.number_of_packets * MIN_PACKET_SIZE > ac.number_of_bytes
        THEN [ac |-> ac, err |-> "AttackAttempt", rule |-> "MIN_PACKET_SIZE"]
        ELSE [ac |-> ac, err |-> "None", rule |-> "none"]

\* (the bug: the packet ceiling is tested with >=)
check_incoming_packet_size_PacketsInclusive(self, size) ==
    LET ac == [number_of_packets |-> self.number_of_packets + 1,
               number_of_bytes   |-> self.number_of_bytes + size]
    IN  IF ac.number_of_bytes > MAX_BYTES
        THEN [ac |-> ac, err |-> "AttackAttempt", rule |-> "MAX_BYTES"]
        ELSE IF ac.number_of_packets >= MAX_PACKETS
        THEN [ac |-> ac, err |-> "AttackAttempt", rule |-> "MAX_PACKETS"]
        ELSE IF ac.number_of_packets > MIN_PACKET_CHECK_THRESHOLD
                /\ ac.number_of_packets * MIN_PACKET_SIZE > ac.number_of_bytes
        THEN [ac |-> ac, err |-> "AttackAttempt", rule |-> "MIN_PACKET_SIZE"]
        ELSE [ac |-> ac, err |-> "None", rule |-> "none"]

\* `rule` names the return statement that rejected (the error value itself
\* is AttackAttempt for all three).
check_incoming_packet_size(self, size) ==
    LET ac == [number_of_packets |-> self.number_of_packets + 1,
               number_of_bytes   |-> self.number_of_bytes + size]
    IN  IF ac.number_of_bytes > MAX_BYTES
        THEN [ac |-> ac, err |-> "AttackAttempt", rule |-> "MAX_BYTES"]
        ELSE IF ac.number_of_packets > MAX_PACKETS
        THEN [ac |-> ac, err |-> "AttackAttempt", rule |-> "MAX_PACKETS"]
        ELSE IF ac.number_of_packets > MIN_PACKET_CHECK_THRESHOLD
                /\ ac.number_of_packets * MIN_PACKET_SIZE > ac.number_of_bytes
        THEN [ac |-> ac, err |-> "AttackAttempt", rule |-> "MIN_PACKET_SIZE"]
        ELSE [ac |-> ac, err |-> "None", rule |-> "none"]

(* ------------------------------ the stream ---------------------------- *)
\* A Read + Write stream: `inp` is what the peer has still to deliver, `out`
\* what has been written to it.  One call answers with io: would-block, an
\* I/O error, or Ok(n).
WouldBlock == [kind |-> "WouldBlock", n |-> 0]
IoError == [kind |-> "Err", n |-> 0]
Ok(n) == [kind |-> "Ok", n |-> n]

\* Read::read: Ok(n) delivers the next n bytes of the peer's data.
Stream_read(stream, io) ==
    IF io.kind = "Ok"
    THEN [data |-> BTake(stream.inp, io.n),
          stream |-> [stream EXCEPT !.inp = BDrop(stream.inp, io.n)]]
    ELSE [data |-> Empty, stream |-> stream]

\* Write::write(chunk): Ok(n) takes the first n bytes of the chunk.
Stream_write(stream, chunk, io) ==
    IF io.kind = "Ok"
    THEN [stream EXCEPT !.out = BCat(stream.out, BTake(chunk, io.n))]
    ELSE stream

(* ---------------------------- the buffers ----------------------------- *)
\* ReadBuffer: the unconsumed bytes.
ReadBuffer_new == Empty

\* buf.read_from(stream).no_block(): one read call; the bytes read are put
\* after the unconsumed ones; would-block becomes None.
ReadBuffer_filled(buf, r, io) ==
    IF io.kind = "Ok"
    THEN [res |-> "Some", count |-> BLen(r.data),
          buf |-> BCat(buf, r.data), stream |-> r.stream]
    ELSE [res |-> IF io.kind = "WouldBlock" THEN "None" ELSE "Err",
          count |-> 0, buf |-> buf, stream |-> r.stream]

read_from(buf, stream, io) ==
    ReadBuffer_filled(buf, Stream_read(stream, io), io)

\* Cursor<Vec<u8>> as a Buf.
Cursor_new(data) == [data |-> data, pos |-> 0]
\* (the bug: a cursor at the end of its data still has something left)
has_remaining_AtEnd(c) == c.pos <= BLen(c.data)

has_remaining(c) == c.pos < BLen(c.data)

\* (the bug: the write is offered the whole payload, not the unflushed rest)
chunk_Whole(c) == c.data

chunk(c) == BDrop(c.data, c.pos)

\* (the bug: the cursor is not advanced)
advance_Stuck(c, size) == c

\* (the bug: the cursor moves by one byte whatever the write reported)
advance_ByOne(c, size) == [c EXCEPT !.pos = c.pos + 1]

advance(c, size) == [c EXCEPT !.pos = c.pos + size]

(* ------------------------ the handshake machine ----------------------- *)
start_read ==
    [state |-> "Reading", buf |-> ReadBuffer_new, attack_check |-> AttackCheck_new]

start_write(data) == [state |-> "Writing", cursor |-> Cursor_new(data)]

NoMachine == [state |-> "None"]
NoStage == [kind |-> "None", result |-> Empty, tail |-> Empty]
DoneReading(obj, tail) == [kind |-> "DoneReading", result |-> obj, tail |-> tail]
DoneWriting == [kind |-> "DoneWriting", result |-> Empty, tail |-> Empty]

\* What a round did besides its result: the calls it made to the guard and
\* to the parser, the rule that rejected, the count the I/O call reported.
NoTrace == [observed |-> 0, parsed |-> 0, rule |-> "none", io |-> "none",
            count |-> 0]

\* The outcome of single_round: res is "WouldBlock", "Incomplete",
\* "StageFinished", "Err" (the Err of the Result) or "Panic" (an assert!).
RoundOut(res, machine, stage, err, stream, trace) ==
    [res |-> res, machine |-> machine, stage |-> stage, err |-> err,
     stream |-> stream, trace |-> trace]

\* (the bug: a read of 0 bytes is taken for would-block)
Reading_Zero_AsBlock(buf, attack_check, stream, tr) ==
    RoundOut("WouldBlock",
             [state |-> "Reading", buf |-> buf, attack_check |-> attack_check],
             NoStage, "None", stream, tr)

\* Some(0) => Err(Error::Protocol(ProtocolError::HandshakeIncomplete))
Reading_Zero(buf, attack_check, stream, tr) ==
    RoundOut("Err", NoMachine, NoStage, "HandshakeIncomplete", stream, tr)

\* (the bug: the tail is taken without buf.advance(size))
Reading_Parsed_NoAdvance(buf, size, obj) == DoneReading(obj, buf)

\* buf.advance(size); StageFinished(DoneReading { result: obj,
\*                                               tail: buf.into_vec() })
Reading_Parsed(buf, size, obj) == DoneReading(obj, BDrop(buf, size))

\* Obj::try_parse(Buf::chunk(&buf))? and what follows from its answer p
Reading_TryParsed(buf, attack_check, p, stream, tr) ==
    IF p.tag = "Err"
    THEN RoundOut("Err", NoMachine, NoStage, "Syntax", stream, tr)
    ELSE IF p.tag = "Some"
    THEN RoundOut("StageFinished", NoMachine,
                  Reading_Parsed(buf, p.size, p.obj), "None", stream, tr)
    ELSE RoundOut("Incomplete",
                  [state |-> "Reading", buf |-> buf,
                   attack_check |-> attack_check],
                  NoStage, "None", stream, tr)

\* attack_check.check_incoming_packet_size(count)? with its answer chk
Reading_Checked(buf, chk, stream, tr) ==
    IF chk.err # "None"
    THEN RoundOut("Err", NoMachine, NoStage, chk.err, stream,
                  [tr EXCEPT !.observed = 1, !.rule = chk.rule])
    ELSE Reading_TryParsed(buf, chk.ac, try_parse(buf), stream,
                           [tr EXCEPT !.observed = 1, !.parsed = 1])

\* (the bug: the bytes go to the parser without the guard being asked)
Reading_Some_Unchecked(buf, attack_check, count, stream, tr) ==
    Reading_TryParsed(buf, attack_check, try_parse(buf), stream,
                      [tr EXCEPT !.parsed = 1])

\* Some(count) => guard, then parser
Reading_Some(buf, attack_check, count, stream, tr) ==
    Reading_Checked(buf, check_incoming_packet_size(attack_check, count),
                    stream, tr)

\* (the bug: would-block hands back a Writing machine over the buffer)
Reading_None_AsWriting(buf, attack_check) ==
    [state |-> "Writing", cursor |-> [data |-> buf, pos |-> 0]]

\* (the bug: would-block hands back a machine that starts over)
Reading_None_Fresh(buf, attack_check) == start_read

\* None => Ok(RoundResult::WouldBlock(HandshakeMachine {
\*             state: HandshakeState::Reading(buf, attack_check) }))
Reading_None(buf, attack_check) ==
    [state |-> "Reading", buf |-> buf, attack_check |-> attack_check]

\* match read { Some(0) => .., Some(count) => .., None => .. }, where
\* read is the answer of buf.read_from(stream).no_block()?
Reading_match(attack_check, read) ==
    LET tr0 == [NoTrace EXCEPT !.io = "read", !.count = read.count] IN
    IF read.res = "Err"
    THEN RoundOut("Err", NoMachine, NoStage, "Io", read.stream, tr0)
    ELSE IF read.res = "Some" /\ read.count = 0
    THEN Reading_Zero(read.buf, attack_check, read.stream, tr0)
    ELSE IF read.res = "Some"
    THEN Reading_Some(read.buf, attack_check, read.count, read.stream, tr0)
    ELSE RoundOut("WouldBlock", Reading_None(read.buf, attack_check),
                  NoStage, "None", read.stream, tr0)

single_round_Reading(buf0, attack_check0, stream, io) ==
    Reading_match(attack_check0, read_from(buf0, stream, io))

\* (the bug: would-block hands back the cursor rewound)
Writing_None_Rewound(buf) ==
    [state |-> "Writing", cursor |-> [buf EXCEPT !.pos = 0]]

\* else => Ok(RoundResult::WouldBlock(HandshakeMachine {
\*             state: HandshakeState::Writing(buf) }))
Writing_None(buf) == [state |-> "Writing", cursor |-> buf]

\* if let Some(size) = stream.write(Buf::chunk(&buf)).no_block()? ..., where
\* stream1 is the stream after the write call and io its answer
Writing_match(buf0, stream1, io) ==
    LET tr0 == [NoTrace EXCEPT !.io = "write", !.count = io.n] IN
    IF io.kind = "Err"
    THEN RoundOut("Err", NoMachine, NoStage, "Io", stream1, tr0)
    ELSE IF io.kind = "Ok"
    THEN IF ~(io.n > 0)
         THEN RoundOut("Panic", NoMachine, NoStage, "assert_size", stream1, tr0)
         ELSE IF io.n > BLen(chunk(buf0))
         THEN RoundOut("Panic", NoMachine, NoStage, "advance_past_end",
                       stream1, tr0)
         ELSE IF has_remaining(advance(buf0, io.n))
         THEN RoundOut("Incomplete",
                       [state |-> "Writing", cursor |-> advance(buf0, io.n)],
                       NoStage, "None", stream1, tr0)
         ELSE RoundOut("StageFinished", NoMachine, DoneWriting,
                       "None", stream1, tr0)
    ELSE RoundOut("WouldBlock", Writing_None(buf0), NoStage, "None",
                  stream1, tr0)

single_round_Writing(buf0, stream, io) ==
    IF ~has_remaining(buf0)
    THEN RoundOut("Panic", NoMachine, NoStage, "assert_has_remaining",
                  stream, NoTrace)
    ELSE Writing_match(buf0, Stream_write(stream, chunk(buf0), io), io)

single_round(self, stream, io) ==
    IF self.state = "Reading"
    THEN single_round_Reading(self.buf, self.attack_check, stream, io)
    ELSE single_round_Writing(self.cursor, stream, io)

(* ------------------------------ the role ------------------------------ *)
\* HandshakeRole::stage_finished.  The role keeps what it was handed and how
\* many stages it has finished; what it answers is its own decision
\* (`answer`): an error, Done with a final result, or Continue with a new
\* machine, which reads the next message or writes the role's reply.
Role_new == [stages |-> 0, last |-> NoStage]

RoleErr == [kind |-> "Err", machine |-> NoMachine]
RoleDone == [kind |-> "Done", machine |-> NoMachine]
RoleContinue(m) == [kind |-> "Continue", machine |-> m]

Payloads == {FromSeq(q) : q \in SeqsUpTo({"a", "b"}, MaxPayload)}

\* the bytes the role sends next: a reply made from the message it has just
\* parsed, or a fixed follow-up after a write
Reply(finish) ==
    IF finish.kind = "DoneReading" THEN BTake(finish.result, MaxPayload)
    ELSE FromSeq(<<"b", "a">>)

RoleAnswers(role, finish) ==
    {RoleErr, RoleDone}
    \cup (IF role.stages + 1 < MaxStages
          THEN {RoleContinue(start_read),
                RoleContinue(start_write(Reply(finish)))}
          ELSE {})

NoResult == [stages |-> 0, last |-> NoStage]

stage_finished(role, finish, answer) ==
    LET role1 == [stages |-> role.stages + 1, last |-> finish] IN
    [role |-> role1, kind |-> answer.kind, machine |-> answer.machine,
     result |-> IF answer.kind = "Done" THEN role1 ELSE NoResult]

(* ----------------------------- the drivers ---------------------------- *)
NoMid == [role |-> Role_new, machine |-> NoMachine,
          stream |-> [inp |-> Empty, out |-> Empty]]
NoStream == [inp |-> Empty, out |-> Empty]

\* Result<(FinalResult, S), HandshakeError<Role, S>>
RetNone == [kind |-> "None", result |-> NoResult, stream |-> NoStream,
            mid |-> NoMid, err |-> "None"]
RetOk(result, stream) == [RetNone EXCEPT !.kind = "Ok", !.result = result,
                                         !.stream = stream]
Interrupted(mid) == [RetNone EXCEPT !.kind = "Interrupted", !.mid = mid]
Failure(err) == [RetNone EXCEPT !.kind = "Failure", !.err = err]

\* impl From<Error> for HandshakeError: what the `?` operator returns.
HandshakeError_from(err) == Failure(err)

\* One pass of the loop of MidHandshake::handshake.  ctl says where control
\* goes: back to the loop head, out of the call, or into a panic.  `staged`
\* counts the calls of stage_finished the pass made.
IterOut(ctl, self, mach, ret, round, staged) ==
    [ctl |-> ctl, self |-> self, mach |-> mach, ret |-> ret, round |-> round,
     staged |-> staged]

\* RoundResult::WouldBlock(m) => return Err(Interrupted(MidHandshake {
\*     machine: m, ..self }))
MidHandshake_WouldBlock(self, m) ==
    Interrupted([role |-> self.role, machine |-> m, stream |-> self.stream])

\* (the bug: after Done the loop goes on, reading)
MidHandshake_StageFinished_DoneLoops(self, r, answer) ==
    LET s == stage_finished(self.role, r.stage, answer)
        self2 == [self EXCEPT !.role = s.role]
    IN  CASE s.kind = "Err" ->
               IterOut("return", self2, NoMachine, HandshakeError_from("Role"),
                       r, 1)
          [] s.kind = "Continue" ->
               IterOut("loop", self2, s.machine, RetNone, r, 1)
          [] s.kind = "Done" ->
               IterOut("loop", self2, start_read, RetNone, r, 1)

\* RoundResult::StageFinished(s) => match self.role.stage_finished(s)? ...
MidHandshake_StageFinished(self, r, answer) ==
    LET s == stage_finished(self.role, r.stage, answer)
        self2 == [self EXCEPT !.role = s.role]
    IN  CASE s.kind = "Err" ->
               IterOut("return", self2, NoMachine, HandshakeError_from("Role"),
                       r, 1)
          [] s.kind = "Continue" ->
               IterOut("loop", self2, s.machine, RetNone, r, 1)
          [] s.kind = "Done" ->
               IterOut("return", self2, NoMachine,
                       RetOk(s.result, self2.stream), r, 1)

\* (the bug: an error is retried on the same machine)
MidHandshake_Err_Retry(self, mach, r) ==
    IterOut("loop", self, mach, RetNone, r, 0)

\* mach.single_round(&mut self.stream)? on an Err: the call returns
MidHandshake_Err(self, mach, r) ==
    IterOut("return", self, NoMachine, HandshakeError_from(r.err), r, 0)

\* (the bug: an incomplete round hands control back to the caller)
MidHandshake_Incomplete_Returns(self, m, r) ==
    IterOut("return", self, NoMachine, MidHandshake_WouldBlock(self, m), r, 0)

\* RoundResult::Incomplete(m) => m
MidHandshake_Incomplete(self, m, r) == IterOut("loop", self, m, RetNone, r, 0)

\* match mach.single_round(&mut self.stream)? { .. }, r the round's outcome
MidHandshake_match(self, mach, answer, r) ==
    LET self1 == [self EXCEPT !.stream = r.stream] IN
    CASE r.res = "Panic" -> IterOut("panic", self1, NoMachine, RetNone, r, 0)
      [] r.res = "Err" -> MidHandshake_Err(self1, mach, r)
      [] r.res = "WouldBlock" ->
            IterOut("return", self1, NoMachine,
                    MidHandshake_WouldBlock(self1, r.machine), r, 0)
      [] r.res = "Incomplete" -> MidHandshake_Incomplete(self1, r.machine, r)
      [] r.res = "StageFinished" -> MidHandshake_StageFinished(self1, r, answer)

MidHandshake_iter(self, mach, io, answer) ==
    MidHandshake_match(self, mach, answer, single_round(mach, self.stream, io))

\* ---- the non-owning flavour: the stream is borrowed for one call ----
NoNonMid == [role |-> Role_new, machine |-> NoMachine]

\* Result<FinalResult, NonOwningHandshakeError<Role>>
NRetNone == [kind |-> "None", result |-> NoResult, mid |-> NoNonMid,
             err |-> "None"]
NRetOk(result) == [NRetNone EXCEPT !.kind = "Ok", !.result = result]
NInterrupted(mid) == [NRetNone EXCEPT !.kind = "Interrupted", !.mid = mid]
NFailure(err) == [NRetNone EXCEPT !.kind = "Failure", !.err = err]

\* impl From<Error> for NonOwningHandshakeError
NonOwningHandshakeError_from(err) == NFailure(err)

NIterOut(ctl, self, mach, stream, ret, round, staged) ==
    [ctl |-> ctl, self |-> self, mach |-> mach, stream |-> stream,
     ret |-> ret, round |-> round, staged |-> staged]

\* (the bug: the interrupted handshake keeps self.machine, not m)
NonOwning_WouldBlock_Stale(self, m) ==
    NInterrupted([role |-> self.role, machine |-> self.machine])

NonOwning_WouldBlock(self, m) ==
    NInterrupted([role |-> self.role, machine |-> m])

NonOwning_StageFinished(self, stream, r, answer) ==
    LET s == stage_finished(self.role, r.stage, answer)
        self2 == [self EXCEPT !.role = s.role]
    IN  CASE s.kind = "Err" ->
               NIterOut("return", self2, NoMachine, stream,
                        NonOwningHandshakeError_from("Role"), r, 1)
          [] s.kind = "Continue" ->
               NIterOut("loop", self2, s.machine, stream, NRetNone, r, 1)
          [] s.kind = "Done" ->
               NIterOut("return", self2, NoMachine, stream, NRetOk(s.result),
                        r, 1)

NonOwning_match(self, mach, answer, r) ==
    CASE r.res = "Panic" ->
            NIterOut("panic", self, NoMachine, r.stream, NRetNone, r, 0)
      [] r.res = "Err" ->
            NIterOut("return", self, NoMachine, r.stream,
                     NonOwningHandshakeError_from(r.err), r, 0)
      [] r.res = "WouldBlock" ->
            NIterOut("return", self, NoMachine, r.stream,
                     NonOwning_WouldBlock(self, r.machine), r, 0)
      [] r.res = "Incomplete" ->
            NIterOut("loop", self, r.machine, r.stream, NRetNone, r, 0)
      [] r.res = "StageFinished" ->
            NonOwning_StageFinished(self, r.stream, r, answer)

NonOwning_iter(self, mach, stream, io, answer) ==
    NonOwning_match(self, mach, answer, single_round(mach, stream, io))

\* HandshakeError::from_non_owning(e, stream)
from_non_owning(e, stream) ==
    IF e.kind = "Interrupted"
    THEN Interrupted([stream |-> stream, role |-> e.mid.role,
                      machine |-> e.mid.machine])
    ELSE Failure(e.err)

(* ------------------------- the accept key ----------------------------- *)
\* derive_accept_key hashes the request key and the WebSocket GUID with
\* SHA-1 and encodes the digest in base64.  Text is a sequence of characters
\* (strings of length one).  A 32-bit word is a pair <<high half, low half>>
\* of 16-bit numbers.
\* the standard alphabet of base64
STANDARD_ALPHABET ==
    <<"A", "B", "C", "D", "E", "F", "G", "H", "I", "J", "K", "L",
      "M", "N", "O", "P", "Q", "R", "S", "T", "U", "V", "W", "X",
      "Y", "Z", "a", "b", "c", "d", "e", "f", "g", "h", "i", "j",
      "k", "l", "m", "n", "o", "p", "q", "r", "s", "t", "u", "v",
      "w", "x", "y", "z", "0", "1", "2", "3", "4", "5", "6", "7",
      "8", "9", "+", "/">>

\* the ASCII code of a character of the base64 alphabet, of "=" or of "-"
Index(ch) == CHOOSE i \in 1..64 : STANDARD_ALPHABET[i] = ch

Code(ch) ==
    IF ch = "=" THEN 61
    ELSE IF ch = "-" THEN 45
    ELSE IF ch = "+" THEN 43
    ELSE IF ch = "/" THEN 47
    ELSE IF Index(ch) <= 26 THEN 64 + Index(ch)
    ELSE IF Index(ch) <= 52 THEN 70 + Index(ch)
    ELSE Index(ch) - 5

as_bytes(text) == [i \in 1..Len(text) |-> Code(text[i])]

Half == 256 * 256

RECURSIVE Xor(_, _, _)
Xor(a, b, n) ==
    IF n = 0 THEN 0 ELSE ((a + b) % 2) + 2 * Xor(a \div 2, b \div 2, n - 1)

RECURSIVE And(_, _, _)
And(a, b, n) ==
    IF n = 0 THEN 0
    ELSE (a % 2) * (b % 2) + 2 * And(a \div 2, b \div 2, n - 1)

WXor(x, y) == <<Xor(x[1], y[1], 16), Xor(x[2], y[2], 16)>>
WAnd(x, y) == <<And(x[1], y[1], 16), And(x[2], y[2], 16)>>
WNot(x) == <<Half - 1 - x[1], Half - 1 - x[2]>>
WOr(x, y) == WNot(WAnd(WNot(x), WNot(y)))

\* u32::wrapping_add
wrapping_add(x, y) ==
    <<(x[1] + y[1] + ((x[2] + y[2]) \div Half)) % Half,
      (x[2] + y[2]) % Half>>

\* u32::rotate_left, for 0 < n < 32
RotlHalves(x, n) ==
    <<((x[1] * (2^n)) % Half) + (x[2] \div (2^(16 - n))),
      ((x[2] * (2^n)) % Half) + (x[1] \div (2^(16 - n)))>>

rotate_left(x, n) ==
    IF n = 16 THEN <<x[2], x[1]>>
    ELSE IF n > 16 THEN RotlHalves(<<x[2], x[1]>>, n - 16)
    ELSE RotlHalves(x, n)

\* SHA-1 (FIPS 180-4): initial hash value, round constants and functions
Sha1_H0 ==
    <<<<\H6745, \H2301>>, <<\HEFCD, \HAB89>>, <<\H98BA, \HDCFE>>,
      <<\H1032, \H5476>>, <<\HC3D2, \HE1F0>>>>

Sha1_K(t) ==
    IF t < 20 THEN <<\H5A82, \H7999>>
    ELSE IF t < 40 THEN <<\H6ED9, \HEBA1>>
    ELSE IF t < 60 THEN <<\H8F1B, \HBCDC>>
    ELSE <<\HCA62, \HC1D6>>

Sha1_f(t, b, c, d) ==
    IF t < 20 THEN WOr(WAnd(b, c), WAnd(WNot(b), d))
    ELSE IF t < 40 THEN WXor(WXor(b, c), d)
    ELSE IF t < 60 THEN WOr(WOr(WAnd(b, c), WAnd(b, d)), WAnd(c, d))
    ELSE WXor(WXor(b, c), d)

\* the 16 big-endian words of a block of 64 bytes
Sha1_words(block) ==
    [i \in 1..16 |-> <<block[4 * i - 3] * 256 + block[4 * i - 2],
                       block[4 * i - 1] * 256 + block[4 * i]>>]

\* the message schedule: 80 words
RECURSIVE Sha1_schedule(_)
Sha1_schedule(w) ==
    IF Len(w) = 80 THEN w
    ELSE Sha1_schedule(Append(w,
           rotate_left(WXor(WXor(w[Len(w) - 2], w[Len(w) - 7]),
                            WXor(w[Len(w) - 13], w[Len(w) - 15])), 1)))

\* the 80 rounds on the working variables a, b, c, d, e; t is the round
Sha1_working(h) ==
    [a |-> h[1], b |-> h[2], c |-> h[3], d |-> h[4], e |-> h[5], t |-> 0]

RECURSIVE Sha1_rounds(_, _)
Sha1_rounds(v, w) ==
    IF v.t = 80 THEN v
    ELSE Sha1_rounds(
           [a |-> wrapping_add(wrapping_add(rotate_left(v.a, 5),
                                            Sha1_f(v.t, v.b, v.c, v.d)),
                               wrapping_add(wrapping_add(v.e, Sha1_K(v.t)),
                                            w[v.t + 1])),
            b |-> v.a, c |-> rotate_left(v.b, 30), d |-> v.c, e |-> v.d,
            t |-> v.t + 1],
           w)

Sha1_sum(h, v) ==
    <<wrapping_add(h[1], v.a), wrapping_add(h[2], v.b),
      wrapping_add(h[3], v.c), wrapping_add(h[4], v.d),
      wrapping_add(h[5], v.e)>>

Sha1_compress(h, block) ==
    Sha1_sum(h, Sha1_rounds(Sha1_working(h),
                            Sha1_schedule(Sha1_words(block))))

\* Sha1: the hash value so far, the bytes of the block not yet full, and
\* the number of bytes taken
Sha1_default == [h |-> Sha1_H0, buffer |-> <<>>, len |-> 0]

RECURSIVE Sha1_absorb(_, _, _)
Sha1_absorb(h, bytes, len) ==
    IF Len(bytes) < 64 THEN [h |-> h, buffer |-> bytes, len |-> len]
    ELSE Sha1_absorb(Sha1_compress(h, SubSeq(bytes, 1, 64)),
                     SubSeq(bytes, 65, Len(bytes)), len)

Sha1_update(sha1, data) ==
    Sha1_absorb(sha1.h, sha1.buffer \o data, sha1.len + Len(data))

\* the padding: 0x80, zeros up to 56 mod 64, the length in bits on 8 bytes
Sha1_padding(len) ==
    <<128>> \o [i \in 1..((119 - (len % 64)) % 64) |-> 0]
            \o <<0, 0, 0, 0, ((8 * len) \div (256 * Half)) % 256,
                 ((8 * len) \div Half) % 256, ((8 * len) \div 256) % 256,
                 (8 * len) % 256>>

Sha1_bytes(h) ==
    [i \in 1..20 |->
       IF i % 4 = 1 THEN h[(i + 3) \div 4][1] \div 256
       ELSE IF i % 4 = 2 THEN h[(i + 3) \div 4][1] % 256
       ELSE IF i % 4 = 3 THEN h[(i + 3) \div 4][2] \div 256
       ELSE h[(i + 3) \div 4][2] % 256]

Sha1_finalize(sha1) ==
    Sha1_bytes(Sha1_absorb(sha1.h, sha1.buffer \o Sha1_padding(sha1.len),
                           sha1.len).h)

\* base64::encode
RECURSIVE base64_encode(_)
base64_encode(bytes) ==
    IF Len(bytes) = 0 THEN <<>>
    ELSE IF Len(bytes) = 1
    THEN <<STANDARD_ALPHABET[(bytes[1] \div 4) + 1],
           STANDARD_ALPHABET[(bytes[1] % 4) * 16 + 1], "=", "=">>
    ELSE IF Len(bytes) = 2
    THEN <<STANDARD_ALPHABET[(bytes[1] \div 4) + 1],
           STANDARD_ALPHABET[(bytes[1] % 4) * 16 + (bytes[2] \div 16) + 1],
           STANDARD_ALPHABET[(bytes[2] % 16) * 4 + 1], "=">>
    ELSE <<STANDARD_ALPHABET[(bytes[1] \div 4) + 1],
           STANDARD_ALPHABET[(bytes[1] % 4) * 16 + (bytes[2] \div 16) + 1],
           STANDARD_ALPHABET[(bytes[2] % 16) * 4 + (bytes[3] \div 64) + 1],
           STANDARD_ALPHABET[(bytes[3] % 64) + 1]>>
         \o base64_encode(SubSeq(bytes, 4, Len(bytes)))

WS_GUID ==
    <<"2", "5", "8", "E", "A", "F", "A", "5", "-", "E", "9", "1",
      "4", "-", "4", "7", "D", "A", "-", "9", "5", "C", "A", "-",
      "C", "5", "A", "B", "0", "D", "C", "8", "5", "B", "1", "1">>

\* (the bug: the GUID is hashed before the key)
derive_accept_key_GuidFirst(request_key) ==
    base64_encode(Sha1_finalize(Sha1_update(
        Sha1_update(Sha1_default, as_bytes(WS_GUID)), request_key)))

\* sha1.update(request_key); sha1.update(WS_GUID);
\* base64::encode(&sha1.finalize())
derive_accept_key(request_key) ==
    base64_encode(Sha1_finalize(Sha1_update(
        Sha1_update(Sha1_default, request_key), as_bytes(WS_GUID))))

(* ------------------------------- state -------------------------------- *)
VARIABLES
    pc,     \* "caller": the caller holds a MidHandshake; "loop": inside
            \* handshake(); "done": handshake() returned Ok or Failure;
            \* "panic": an assertion failed
    held,   \* the MidHandshake the caller holds (owning flavour)
    self,   \* inside handshake(): self after `mach = self.machine`
    mach,   \* inside handshake(): the local `mach`
    ret,    \* what the last handshake() call returned
    non,    \* the same handshake driven by NonOwningMidHandshake::handshake
            \* over a stream that answers alike
    last,   \* what the last step did (the round, its answers)
    hist,   \* the bytes moved in the current stage
    accept  \* a call of derive_accept_key: its request key and its answer

vars == <<pc, held, self, mach, ret, non, last, hist, accept>>

NoSelf == [role |-> Role_new, stream |-> NoStream]
NoRound == RoundOut("None", NoMachine, NoStage, "None", NoStream, NoTrace)

\* The history of one stage (one machine from start_read / start_write on).
NewStage(m, stream, wstarted, wdone) ==
    [inp0 |-> stream.inp, out0 |-> stream.out,
     received |-> Empty, reads |-> 0,
     payload |-> IF m.state = "Writing" THEN m.cursor.data ELSE Empty,
     wsum |-> 0, writes |-> 0, susp |-> FALSE, since |-> 0,
     wstarted |-> wstarted + (IF m.state = "Writing" THEN 1 ELSE 0),
     wdone |-> wdone]

\* the input the peer sends on the flooded connection: one-byte packets up
\* to the guard's threshold, then the end of the message
Flood == BCat(Run("a", MIN_PACKET_CHECK_THRESHOLD), Run("T", 1))

Inputs == {FromSeq(q) : q \in SeqsUpTo(InByte, MaxInput)} \cup {Flood}

InitialMachines == {start_read} \cup {start_write(d) : d \in Payloads}

\* The sizes one read call may report: every size while at most MaxInput
\* bytes are pending; of a longer input a read takes nothing (end of
\* stream), one byte, a packet of the guard's minimal size, or a huge one.
HugeRead == 70000
ReadSizes(stream) ==
    LET pending == BLen(stream.inp) IN
    IF pending <= MaxInput THEN 0..pending
    ELSE {k \in {0, 1, MIN_PACKET_SIZE, HugeRead} : k <= pending}

ReadResponses(stream) ==
    {WouldBlock, IoError} \cup {Ok(n) : n \in ReadSizes(stream)}

WriteResponses(c) ==
    {WouldBlock, IoError} \cup {Ok(n) : n \in 0..BLen(chunk(c))}

Responses(m, stream) ==
    IF m.state = "Reading" THEN ReadResponses(stream)
    ELSE WriteResponses(m.cursor)

\* no key is being derived
NoAccept == [request_key |-> <<>>, accept_key |-> <<>>, derived |-> FALSE]

MidInit(m, inp) ==
    LET stream == [inp |-> inp, out |-> Empty] IN
    /\ pc = "caller"
    /\ held = [role |-> Role_new, machine |-> m, stream |-> stream]
    /\ self = NoSelf
    /\ mach = NoMachine
    /\ ret = RetNone
    /\ non = [pc |-> "caller", held |-> [role |-> Role_new, machine |-> m],
              self |-> NoNonMid, mach |-> NoMachine, stream |-> stream,
              ret |-> NRetNone]
    /\ last = [act |-> "none", before |-> NoMid, io |-> WouldBlock,
               round |-> NoRound, answer |-> "None", staged |-> 0,
               hist |-> NewStage(m, stream, 0, 0)]
    /\ hist = NewStage(m, stream, 0, 0)

InitWith(m, inp) == MidInit(m, inp) /\ accept = NoAccept

Init == \E m \in InitialMachines, inp \in Inputs : InitWith(m, inp)

(* ------------------------------ actions ------------------------------- *)
\* The caller calls handshake() on the MidHandshake it holds:
\* `let mut mach = self.machine;`
Handshake ==
    /\ pc = "caller"
    /\ pc' = "loop"
    /\ self' = [role |-> held.role, stream |-> held.stream]
    /\ mach' = held.machine
    /\ held' = NoMid
    /\ ret' = RetNone
    /\ non' = IF non.pc = "caller"
              THEN [non EXCEPT !.pc = "loop",
                               !.self = [non.held EXCEPT !.machine = NoMachine],
                               !.mach = non.held.machine,
                               !.held = NoNonMid, !.ret = NRetNone]
              ELSE non
    /\ last' = [last EXCEPT !.act = "call", !.round = NoRound,
                            !.answer = "None", !.staged = 0]
    /\ UNCHANGED <<hist, accept>>

\* the stage history after a round
HistWith(h, before, io, r, data, gotData) ==
        [h EXCEPT
           !.received = BCat(h.received, data),
           !.reads = h.reads + (IF gotData THEN 1 ELSE 0),
           !.susp = h.susp \/ (r.res = "WouldBlock"
                               /\ (BLen(h.received) > 0 \/ h.wsum > 0)),
           !.since = IF r.res = "WouldBlock" THEN 0
                     ELSE IF gotData /\ h.susp /\ h.since < 2 THEN h.since + 1
                     ELSE h.since,
           !.wsum = h.wsum + (IF r.trace.io = "write" /\ io.kind = "Ok"
                              THEN io.n ELSE 0),
           !.writes = h.writes + (IF r.trace.io = "write" /\ io.kind = "Ok"
                                     /\ r.res # "Panic"
                                  THEN 1 ELSE 0),
           !.wdone = h.wdone + (IF r.res = "StageFinished"
                                   /\ r.stage.kind = "DoneWriting"
                                THEN 1 ELSE 0)]

HistData(before, io, r) ==
    IF r.trace.io = "read" /\ io.kind = "Ok"
    THEN BTake(before.stream.inp, io.n) ELSE Empty

HistAfter(h, before, io, r) ==
    HistWith(h, before, io, r, HistData(before, io, r),
             BLen(HistData(before, io, r)) > 0)

\* where control is after a loop pass that ended with ctl and returned ret
PcAfter(ctl, r) ==
    CASE ctl = "loop" -> "loop"
      [] ctl = "panic" -> "panic"
      [] ctl = "return" -> IF r.kind = "Interrupted" THEN "caller" ELSE "done"

NonAfter(it) ==
    [pc |-> PcAfter(it.ctl, it.ret),
     held |-> IF it.ret.kind = "Interrupted" THEN it.ret.mid ELSE NoNonMid,
     self |-> IF it.ctl = "loop" THEN it.self ELSE NoNonMid,
     mach |-> it.mach,
     stream |-> it.stream,
     ret |-> it.ret]

NonStep(io, answer) ==
    IF non.pc = "loop"
    THEN NonAfter(NonOwning_iter(non.self, non.mach, non.stream, io, answer))
    ELSE non

\* One pass of the loop of handshake(): a round, and what the driver does
\* with its result.
StepWith(io, answer, it, before) ==
    /\ pc' = PcAfter(it.ctl, it.ret)
    /\ self' = IF it.ctl = "loop" THEN it.self ELSE NoSelf
    /\ mach' = it.mach
    /\ ret' = it.ret
    /\ held' = IF it.ret.kind = "Interrupted" THEN it.ret.mid ELSE NoMid
    /\ non' = NonStep(io, answer)
    /\ last' = [act |-> "round", before |-> before, io |-> io,
                round |-> it.round,
                answer |-> IF it.staged = 1 THEN answer.kind ELSE "None",
                staged |-> it.staged,
                hist |-> HistAfter(hist, before, io, it.round)]
    /\ hist' = IF it.ctl = "loop" /\ it.staged = 1
               THEN NewStage(it.mach, it.self.stream, last'.hist.wstarted,
                             last'.hist.wdone)
               ELSE last'.hist
    /\ UNCHANGED accept

Step(io, answer) ==
    StepWith(io, answer, MidHandshake_iter(self, mach, io, answer),
             [role |-> self.role, machine |-> mach, stream |-> self.stream])

Answers(r) ==
    IF r.res = "StageFinished" THEN RoleAnswers(self.role, r.stage)
    ELSE {RoleErr}

ReadingRound ==
    /\ pc = "loop"
    /\ mach.state = "Reading"
    /\ \E io \in ReadResponses(self.stream) :
         \E answer \in Answers(single_round(mach, self.stream, io)) :
            Step(io, answer)

WritingRound ==
    /\ pc = "loop"
    /\ mach.state = "Writing"
    /\ \E io \in WriteResponses(mach.cursor) \cup {WouldBlock} :
         \E answer \in Answers(single_round(mach, self.stream, io)) :
            Step(io, answer)

Next == Handshake \/ ReadingRound \/ WritingRound

Spec == Init /\ [][Next]_vars

(* ------------------------------ helpers ------------------------------- *)
\* the machine and the stream of the handshake, wherever they are held
MachineNow ==
    IF pc = "loop" THEN mach
    ELSE IF pc = "caller" THEN held.machine
    ELSE NoMachine

StreamNow ==
    IF pc = "loop" THEN self.stream
    ELSE IF pc = "caller" THEN held.stream
    ELSE last.round.stream

\* the last step was a round that ended a reading stage
EndedReading ==
    /\ last.act = "round"
    /\ last.round.res = "StageFinished"
    /\ last.round.stage.kind = "DoneReading"

\* a fresh machine that gets `bytes` in a single read call
OneShot(bytes) ==
    single_round(start_read, [inp |-> bytes, out |-> Empty], Ok(BLen(bytes)))

(* ------------------------------- C1 ----------------------------------- *)
\* C1 (as stated): when the peer's stream is one well-formed message followed
\* by K trailing bytes, the DoneReading that ends the stage carries a tail
\* equal to all K trailing bytes, however the stream was chunked.
C1_TailIsAllTrailing ==
    LET p == try_parse(last.hist.inp0) IN
    (EndedReading /\ p.tag = "Some")
        => last.round.stage.tail = BDrop(last.hist.inp0, p.size)

\* C1 (amended): the DoneReading carries the message's object, and its tail
\* is exactly the bytes read beyond the end of the message: the part of the
\* K trailing bytes delivered up to and including the read that completed
\* the message, in order.  The rest of the trailing bytes is still unread in
\* the stream, so the tail is all K bytes only if that read delivered the
\* last of them.
C1_TailIsReadSurplus ==
    LET h == last.hist
        p == try_parse(h.inp0)
        st == last.round.stage
    IN  (EndedReading /\ p.tag = "Some")
        => /\ st.result = p.obj
           /\ st.tail = BDrop(h.received, p.size)
           /\ BCat(h.received, last.round.stream.inp) = h.inp0
           /\ BCat(st.tail, last.round.stream.inp) = BDrop(h.inp0, p.size)
           /\ (st.tail = BDrop(h.inp0, p.size)
                 <=> last.round.stream.inp = Empty)

\* a message read in several chunks, the last of which brought trailing bytes
C1_Witness ==
    /\ EndedReading
    /\ last.hist.reads >= 2
    /\ BLen(last.round.stage.result) >= 1
    /\ BLen(last.round.stage.tail) >= 1

(* ------------------------------- C2 ----------------------------------- *)
\* the last step was the read that resumed a reading machine suspended in
\* the middle of a message, and it brought the rest of the message
ResumedWithRest ==
    /\ last.act = "round"
    /\ last.before.machine.state = "Reading"
    /\ last.io.kind = "Ok" /\ last.io.n > 0
    /\ last.hist.susp /\ last.hist.since = 1
    /\ OneShot(last.hist.received).res = "StageFinished"

\* C2 (as stated): a reading machine suspended by would-block in the middle
\* of a message and resumed with the remaining bytes ends with the same
\* object and tail as a fresh machine that gets all the bytes in one read.
C2_ResumeEqualsOneShot ==
    ResumedWithRest
        => /\ last.round.res = "StageFinished"
           /\ last.round.stage = OneShot(last.hist.received).stage

\* C2 (amended): the same, unless the guard rejects the resuming read with
\* AttackAttempt (it counts the reads made before the suspension).
C2_ResumeEqualsOneShotUnlessAttack ==
    ResumedWithRest
        => \/ /\ last.round.res = "Err"
              /\ last.round.err = "AttackAttempt"
              /\ ret = Failure("AttackAttempt")
           \/ /\ last.round.res = "StageFinished"
              /\ last.round.stage = OneShot(last.hist.received).stage

C2_Witness ==
    /\ ResumedWithRest
    /\ last.round.res = "StageFinished"
    /\ BLen(last.round.stage.result) >= 1
    /\ BLen(last.round.stage.tail) >= 1

(* ------------------------------- C4 ----------------------------------- *)
\* the last step was a Reading round whose read returned 0 bytes
ReadZero ==
    /\ last.act = "round"
    /\ last.before.machine.state = "Reading"
    /\ last.io = Ok(0)

\* C4: a read of 0 bytes that is not would-block makes the round fail with
\* HandshakeIncomplete: the guard is not called, the parser is not called,
\* the result is neither WouldBlock nor Incomplete, and the call fails.
C4_ZeroReadIsIncomplete ==
    ReadZero
        => /\ last.round.res = "Err"
           /\ last.round.err = "HandshakeIncomplete"
           /\ last.round.trace.observed = 0
           /\ last.round.trace.parsed = 0
           /\ last.round.machine = NoMachine
           /\ last.staged = 0
           /\ pc = "done"
           /\ ret = Failure("HandshakeIncomplete")

\* a read of 0 bytes when the buffer already holds part of a message
C4_Witness ==
    /\ ReadZero
    /\ BLen(last.before.machine.buf) >= 1
    /\ last.before.machine.attack_check.number_of_packets >= 1

(* ------------------------------- C5 ----------------------------------- *)
\* the last step was a round whose I/O call reported would-block
BlockedRound ==
    /\ last.act = "round"
    /\ last.round.trace.io # "none"
    /\ last.io.kind = "WouldBlock"

\* C5: a round whose I/O call reports would-block returns WouldBlock with
\* the machine it consumed, unchanged, and leaves the stream as it was; and
\* at every point of a stage the machine holds exactly what was moved: a
\* Reading machine's buffer is the bytes taken from the stream, in order,
\* and its guard has counted them; a Writing machine's flushed position
\* marks exactly the bytes the stream has taken.
C5_WouldBlockKeepsState ==
    /\ BlockedRound
         => /\ last.round.res = "WouldBlock"
            /\ last.round.machine = last.before.machine
            /\ last.round.stream = last.before.stream
            /\ last.round.trace.observed = 0
            /\ last.round.trace.parsed = 0
            /\ held.machine = last.before.machine
    /\ MachineNow.state = "Reading"
         => /\ MachineNow.buf = hist.received
            /\ BCat(hist.received, StreamNow.inp) = hist.inp0
            /\ MachineNow.attack_check.number_of_bytes = BLen(hist.received)
            /\ MachineNow.attack_check.number_of_packets = hist.reads
            /\ StreamNow.out = hist.out0
    /\ MachineNow.state = "Writing"
         => /\ MachineNow.cursor.data = hist.payload
            /\ StreamNow.out
                 = BCat(hist.out0, BTake(hist.payload, MachineNow.cursor.pos))
            /\ StreamNow.inp = hist.inp0

\* would-block in the middle of a write
C5_Witness ==
    /\ BlockedRound
    /\ last.before.machine.state = "Writing"
    /\ last.before.machine.cursor.pos >= 1
    /\ pc = "caller"

(* ------------------------------- C6 ----------------------------------- *)
\* the last step was a loop pass in which an error was raised, by the round
\* or by the role
Errored ==
    /\ last.act = "round"
    /\ (last.round.res = "Err" \/ last.answer = "Err")

ErrorOfLast == IF last.round.res = "Err" THEN last.round.err ELSE "Role"

\* C6: an error raised in a handshake() call ends the call at once with
\* Failure carrying that error: what the round had not yet called when the
\* error arose is not called, no step of the handshake can follow, and the
\* caller is left without a MidHandshake; a MidHandshake is handed back only
\* by Interrupted.
C6_ErrorEndsCall ==
    /\ Errored
         => /\ pc = "done"
            /\ ret = Failure(ErrorOfLast)
            /\ held = NoMid
            /\ mach = NoMachine
            /\ ~ENABLED (Handshake \/ ReadingRound \/ WritingRound)
            /\ last.round.res = "Err" => last.staged = 0
            /\ ErrorOfLast \in {"Io", "HandshakeIncomplete"}
                 => last.round.trace.observed = 0 /\ last.round.trace.parsed = 0
            /\ ErrorOfLast = "AttackAttempt" => last.round.trace.parsed = 0
    /\ ret.kind = "Failure" => Errored
    /\ held # NoMid => (pc = "caller" /\ ret.kind \in {"None", "Interrupted"})
    /\ ret.kind = "Interrupted" => (held = ret.mid /\ ~Errored)

\* a syntax error found after part of the message had been read
C6_Witness ==
    /\ Errored
    /\ ErrorOfLast = "Syntax"
    /\ last.hist.reads >= 2

(* ------------------------------- C7 ----------------------------------- *)
\* C7: handshake() returns only on WouldBlock (Interrupted with the machine
\* of that round, the same role and the same stream), on the role's Done,
\* or on an error; after an Incomplete round the loop goes on with the
\* machine the round returned.
C7_ReturnsOnlyOn ==
    last.act = "round"
        => /\ last.round.res = "Incomplete"
                => /\ pc = "loop"
                   /\ mach = last.round.machine
                   /\ self = [role |-> last.before.role,
                              stream |-> last.round.stream]
                   /\ ret = RetNone
                   /\ held = NoMid
           /\ last.round.res = "WouldBlock"
                => /\ pc = "caller"
                   /\ ret = Interrupted([role |-> last.before.role,
                                         machine |-> last.round.machine,
                                         stream |-> last.before.stream])
                   /\ held = ret.mid
           /\ pc = "caller" => last.round.res = "WouldBlock"
           /\ pc = "done"
                => \/ ret.kind = "Ok" /\ last.answer = "Done"
                   \/ ret.kind = "Failure" /\ Errored
           /\ pc = "loop"
                => (last.round.res = "Incomplete" \/ last.answer = "Continue")

\* an interruption after an incomplete round of the same call
C7_Witness ==
    /\ last.act = "round"
    /\ last.round.res = "WouldBlock"
    /\ pc = "caller"
    /\ last.hist.reads >= 1
    /\ last.before.role.stages >= 1

(* ------------------------------- C8 ----------------------------------- *)
\* C8: the non-owning driver, given the same role and machine and a stream
\* that answers alike, is always where the owning driver is: same machine,
\* same role, same stream contents, and an outcome that from_non_owning
\* maps to the owning driver's outcome.
C8_FlavoursAgree ==
    /\ non.pc = pc
    /\ non.mach = mach
    /\ pc = "loop" => (non.self.role = self.role /\ non.stream = self.stream)
    /\ pc = "caller"
         => held = [role |-> non.held.role, machine |-> non.held.machine,
                    stream |-> non.stream]
    /\ last.act = "round" => non.stream = last.round.stream
    /\ ret.kind = "None" => non.ret = NRetNone
    /\ ret.kind = "Ok"
         => (non.ret = NRetOk(ret.result) /\ ret.stream = non.stream)
    /\ ret.kind \in {"Interrupted", "Failure"}
         => (non.ret.kind = ret.kind
             /\ from_non_owning(non.ret, non.stream) = ret)

\* both drivers interrupted in the middle of a write of a later stage
C8_Witness ==
    /\ ret.kind = "Interrupted"
    /\ non.ret.kind = "Interrupted"
    /\ non.ret.mid.machine.state = "Writing"
    /\ non.ret.mid.machine.cursor.pos >= 1
    /\ non.ret.mid.role.stages >= 1

(* ------------------------------- C9 ----------------------------------- *)
\* the last step was a round that ended a writing stage
EndedWriting ==
    /\ last.act = "round"
    /\ last.round.res = "StageFinished"
    /\ last.round.stage.kind = "DoneWriting"

\* C9: in a writing stage over N bytes the flushed position after each round
\* is the sum of the counts the write calls have reported, and at
\* DoneWriting that sum is N and the stream has taken N bytes.
C9_WriteCountsSumToN ==
    /\ MachineNow.state = "Writing"
         => /\ MachineNow.cursor.pos = hist.wsum
            /\ MachineNow.cursor.data = hist.payload
    /\ (last.act = "round" /\ last.round.res = "Incomplete"
        /\ last.before.machine.state = "Writing")
         => last.round.machine.cursor.pos = last.hist.wsum
    /\ EndedWriting
         => /\ last.hist.wsum = BLen(last.hist.payload)
            /\ BLen(last.round.stream.out)
                 = BLen(last.hist.out0) + BLen(last.hist.payload)

\* a payload of several bytes that took several write calls
C9_Witness ==
    /\ EndedWriting
    /\ BLen(last.hist.payload) >= 2
    /\ last.round.trace.count < BLen(last.hist.payload)

(* ------------------- the guard under a flood of input ------------------ *)
\* A reading stage whose peer never ends its message: an input long enough
\* for the guard's byte ceiling to be reached and a huge read to follow.
Torrent == Run("a", MAX_BYTES + HugeRead)

GuardInit == InitWith(start_read, Torrent)

GuardNext == Handshake \/ ReadingRound

GuardSpec == GuardInit /\ [][GuardNext]_vars

(* ------------------------------- C10 ---------------------------------- *)
\* the last step was a Reading round in which the guard was called
Observed ==
    /\ last.act = "round"
    /\ last.before.machine.state = "Reading"
    /\ last.round.trace.observed = 1

\* C10: a read of HugeRead (70000) bytes is rejected with AttackAttempt by
\* the byte-count rule whatever the guard had counted before; and whenever
\* the bytes counted exceed MAX_BYTES it is the byte-count rule that
\* rejects, also when another rule would reject too.
C10_HugeReadRejectedByBytes ==
    /\ (last.act = "round" /\ last.before.machine.state = "Reading"
        /\ last.io = Ok(HugeRead))
         => /\ Observed
            /\ last.round.res = "Err"
            /\ last.round.err = "AttackAttempt"
            /\ last.round.trace.rule = "MAX_BYTES"
            /\ last.round.trace.parsed = 0
            /\ ret = Failure("AttackAttempt")
    /\ (Observed
        /\ last.before.machine.attack_check.number_of_bytes
             + last.round.trace.count > MAX_BYTES)
         => /\ last.round.err = "AttackAttempt"
            /\ last.round.trace.rule = "MAX_BYTES"

\* a huge read arriving when the packet count is at its ceiling, so that the
\* packet-count rule would reject it too
C10_Witness ==
    /\ Observed
    /\ last.io = Ok(HugeRead)
    /\ last.before.machine.attack_check.number_of_packets = MAX_PACKETS
    /\ last.before.machine.attack_check.number_of_bytes = MAX_BYTES

(* --------------------- the handshake under fairness -------------------- *)
\* a round in which the stream's write takes some of the bytes offered
WriteAccept ==
    /\ pc = "loop"
    /\ mach.state = "Writing"
    /\ \E io \in {Ok(n) : n \in 1..BLen(chunk(mach.cursor))} :
         \E answer \in Answers(single_round(mach, self.stream, io)) :
            Step(io, answer)

LiveInit ==
    \E m \in InitialMachines, inp \in {FromSeq(q) : q \in SeqsUpTo(InByte, 1)} :
        InitWith(m, inp)

\* The loop runs on and the caller calls handshake() again after an
\* interruption (weak fairness of Next); the stream does not answer
\* would-block for ever (strong fairness of WriteAccept).
LiveSpec ==
    LiveInit /\ [][Next]_vars /\ WF_vars(Next) /\ SF_vars(WriteAccept)

(* ------------------------------- C3 ----------------------------------- *)
\* Whatever was written went to the stream once, in order: the stream holds
\* what it held at the start of the stage and then the flushed part of the
\* payload; DoneWriting comes once for a payload, with the whole payload
\* delivered, and a write call is made only for a payload whose DoneWriting
\* has not come.
C3_Safety ==
    /\ StreamNow.out = BCat(hist.out0, BTake(hist.payload, hist.wsum))
    /\ hist.wdone <= hist.wstarted
    /\ hist.wstarted <= hist.wdone + 1
    /\ MachineNow.state = "Writing" => hist.wdone + 1 = hist.wstarted
    /\ EndedWriting
         => /\ last.hist.wdone = last.hist.wstarted
            /\ last.round.stream.out = BCat(last.hist.out0, last.hist.payload)
    /\ (last.act = "round" /\ last.round.trace.io = "write")
         => last.hist.wstarted
              = last.hist.wdone + (IF EndedWriting THEN 0 ELSE 1)

\* the stage of a payload has ended: it got its DoneWriting, or a write
\* failed with an I/O error, or a write accepted none of the bytes offered
\* (assert!(size > 0))
WritingOver ==
    \/ EndedWriting
    \/ ret.kind = "Failure" /\ ret.err = "Io"
    \/ pc = "panic" /\ last.round.err = "assert_size"

\* C3 (as stated): for every payload, repeated rounds deliver it whole and
\* in order and produce DoneWriting exactly once, with no write after it.
C3_EveryPayloadDelivered ==
    /\ []C3_Safety
    /\ (MachineNow.state = "Writing") ~> WritingOver

\* C3 (amended): the same for every non-empty payload (an empty payload
\* fails the assertion of the first round and never gets its DoneWriting).
C3_NonEmptyPayloadDelivered ==
    /\ []C3_Safety
    /\ (MachineNow.state = "Writing" /\ BLen(hist.payload) > 0) ~> WritingOver

\* a payload of several bytes delivered across a would-block
C3_Witness ==
    /\ EndedWriting
    /\ BLen(last.hist.payload) >= 2
    /\ last.hist.susp
    /\ last.round.stream.out = BCat(last.hist.out0, last.hist.payload)

(* ------------------------------- C11 ---------------------------------- *)
\* the last step was a Reading round whose read brought one byte, in a
\* stage all of whose counted reads brought one byte
OneByteRead ==
    /\ Observed
    /\ last.round.trace.count = 1
    /\ last.before.machine.attack_check.number_of_bytes
         = last.before.machine.attack_check.number_of_packets

\* the counters of the guard after the call of the last round
PacketsSeen == last.before.machine.attack_check.number_of_packets + 1
BytesSeen ==
    last.before.machine.attack_check.number_of_bytes + last.round.trace.count

\* C11 (as stated): a reading stage of one-byte reads is rejected at its
\* 513th read, by the packet-count rule.
C11_OneByteReadsRejectedByPackets ==
    (OneByteRead /\ last.round.err = "AttackAttempt")
      => /\ last.round.trace.rule = "MAX_PACKETS"
         /\ PacketsSeen = MAX_PACKETS + 1

\* C11 (amended): a reading stage of one-byte reads is rejected at its 65th
\* read, by the small-packet rule, with both the packet count and the byte
\* count below their ceilings; it never gets to a 513th read.
C11_OneByteReadsRejectedBySmallPackets ==
    OneByteRead
      => /\ PacketsSeen <= MIN_PACKET_CHECK_THRESHOLD + 1
         /\ last.round.err = "AttackAttempt"
              <=> PacketsSeen = MIN_PACKET_CHECK_THRESHOLD + 1
         /\ last.round.err = "AttackAttempt"
              => /\ last.round.trace.rule = "MIN_PACKET_SIZE"
                 /\ last.round.trace.parsed = 0
                 /\ ret = Failure("AttackAttempt")
                 /\ PacketsSeen <= MAX_PACKETS
                 /\ BytesSeen <= MAX_BYTES
         /\ last.round.err # "AttackAttempt"
              => last.round.trace.parsed = 1

\* the 65th one-byte read, rejected
C11_Witness ==
    /\ OneByteRead
    /\ PacketsSeen = MIN_PACKET_CHECK_THRESHOLD + 1
    /\ last.round.trace.rule = "MIN_PACKET_SIZE"
    /\ pc = "done"

(* ------------------------------- C12 ---------------------------------- *)
\* C12: the packet-count rule is strict: it rejects only a count above
\* MAX_PACKETS, and the read that brings the count to exactly MAX_PACKETS
\* is not rejected by it (it is accepted when the other two rules pass);
\* of a stream of one-byte reads the reads 1 to 64 are accepted and read 65
\* is rejected with AttackAttempt by the small-packet rule.
C12_RuleBoundaries ==
    /\ (Observed /\ last.round.trace.rule = "MAX_PACKETS")
         => PacketsSeen > MAX_PACKETS
    /\ (Observed /\ PacketsSeen = MAX_PACKETS)
         => /\ last.round.trace.rule # "MAX_PACKETS"
            /\ (BytesSeen <= MAX_BYTES
                /\ PacketsSeen * MIN_PACKET_SIZE <= BytesSeen)
                 => last.round.err # "AttackAttempt"
    /\ (OneByteRead /\ PacketsSeen \in 1..MIN_PACKET_CHECK_THRESHOLD)
         => /\ last.round.res \in {"Incomplete", "StageFinished"}
            /\ last.round.trace.rule = "none"
    /\ (OneByteRead /\ PacketsSeen > MIN_PACKET_CHECK_THRESHOLD)
         => /\ PacketsSeen * MIN_PACKET_SIZE > BytesSeen
            /\ last.round.res = "Err"
            /\ last.round.err = "AttackAttempt"
            /\ last.round.trace.rule = "MIN_PACKET_SIZE"

\* the read that brings the count to exactly MAX_PACKETS, accepted
C12_Witness ==
    /\ Observed
    /\ PacketsSeen = MAX_PACKETS
    /\ last.round.res = "Incomplete"
    /\ MachineNow.attack_check.number_of_packets = MAX_PACKETS

(* ------------------------------- C14 ---------------------------------- *)
\* the last step was a round (one pass of the loop)
Round == last.act = "round"

\* C14: the machine a round returns in WouldBlock or Incomplete is of the
\* variant of the machine the round consumed; a Reading machine ends its
\* stage with DoneReading only and a Writing machine with DoneWriting only;
\* the machine of the handshake is of another variant than the one the
\* round consumed only when the role answered Continue to a finished stage.
C14_VariantKept ==
    /\ MachineNow.state \in {"Reading", "Writing", "None"}
    /\ Round =>
         /\ last.before.machine.state \in {"Reading", "Writing"}
         /\ last.round.res \in {"WouldBlock", "Incomplete"}
              => /\ last.round.machine.state = last.before.machine.state
                 /\ MachineNow = last.round.machine
         /\ last.round.res = "StageFinished"
              => last.round.stage.kind
                   = (IF last.before.machine.state = "Reading"
                      THEN "DoneReading" ELSE "DoneWriting")
         /\ (MachineNow.state # "None"
             /\ MachineNow.state # last.before.machine.state)
              => /\ last.round.res = "StageFinished"
                 /\ last.staged = 1
                 /\ last.answer = "Continue"

\* the role answers the message read with a machine that writes
C14_Witness ==
    /\ Round
    /\ last.before.machine.state = "Reading"
    /\ last.round.res = "StageFinished"
    /\ last.answer = "Continue"
    /\ MachineNow.state = "Writing"

(* ------------------------------- C15 ---------------------------------- *)
\* C15: in a reading stage the guard is called in every round whose read
\* brought bytes, once (its packet counter goes up by one and its byte
\* counter by the bytes read) and before the parser; it is called in no
\* other round; the parser is called only after the guard has accepted;
\* the counters of the machine returned are never below those of the
\* machine consumed.
C15_GuardBeforeParser ==
    (Round /\ last.before.machine.state = "Reading") =>
       /\ last.round.trace.observed
            = (IF last.io.kind = "Ok" /\ last.io.n > 0 THEN 1 ELSE 0)
       /\ last.round.trace.parsed = 1
            => /\ last.round.trace.observed = 1
               /\ last.round.trace.rule = "none"
               /\ last.round.err # "AttackAttempt"
       /\ last.round.err = "AttackAttempt"
            => /\ last.round.trace.observed = 1
               /\ last.round.trace.parsed = 0
               /\ last.round.res = "Err"
       /\ (last.round.trace.observed = 1 /\ last.round.err # "AttackAttempt")
            => last.round.trace.parsed = 1
       /\ last.round.res \in {"WouldBlock", "Incomplete"}
            => /\ last.round.machine.attack_check.number_of_packets
                    = last.before.machine.attack_check.number_of_packets
                        + last.round.trace.observed
               /\ last.round.machine.attack_check.number_of_bytes
                    = last.before.machine.attack_check.number_of_bytes
                        + last.round.trace.count
               /\ last.round.machine.attack_check.number_of_packets
                    >= last.before.machine.attack_check.number_of_packets
               /\ last.round.machine.attack_check.number_of_bytes
                    >= last.before.machine.attack_check.number_of_bytes

\* the guard rejects a read whose bytes would have completed the message:
\* the parser does not see them
C15_Witness ==
    /\ Round
    /\ last.before.machine.state = "Reading"
    /\ last.round.err = "AttackAttempt"
    /\ last.round.trace.parsed = 0
    /\ OneShot(last.hist.received).res = "StageFinished"

(* ------------------------------- C16 ---------------------------------- *)
\* C16: a pass of the loop calls stage_finished once when the round's
\* result is StageFinished and not at all otherwise; after Continue(m) the
\* loop goes on with m as its machine, the role updated and the stream as
\* the round left it; after Done(r) the call has returned Ok with r (and, in
\* the owning flavour, the stream as the round left it), and no step of the
\* handshake follows.
C16_StageFinishedOncePerStage ==
    Round =>
       /\ last.staged = (IF last.round.res = "StageFinished" THEN 1 ELSE 0)
       /\ last.answer # "None" <=> last.round.res = "StageFinished"
       /\ last.round.res = "StageFinished"
            => last.answer \in {"Err", "Continue", "Done"}
       /\ last.answer = "Continue"
            => /\ pc = "loop"
               /\ mach \in {start_read,
                            start_write(Reply(last.round.stage))}
               /\ self.role = [stages |-> last.before.role.stages + 1,
                               last |-> last.round.stage]
               /\ self.stream = last.round.stream
               /\ ret = RetNone
               /\ hist = NewStage(mach, self.stream, last.hist.wstarted,
                                  last.hist.wdone)
       /\ last.answer = "Done"
            => /\ pc = "done"
               /\ ret = RetOk([stages |-> last.before.role.stages + 1,
                               last |-> last.round.stage],
                              last.round.stream)
               /\ non.ret = NRetOk(ret.result)
               /\ non.stream = ret.stream
               /\ mach = NoMachine
               /\ ~ENABLED Next

\* Done after an earlier stage had been answered with Continue
C16_Witness ==
    /\ Round
    /\ last.answer = "Done"
    /\ last.before.role.stages >= 1
    /\ ret.kind = "Ok"

(* ------------------------------- C17 ---------------------------------- *)
\* what the guard guarantees of the counters it has accepted
Accepted(ac) ==
    /\ ac.number_of_bytes <= MAX_BYTES
    /\ ac.number_of_packets <= MAX_PACKETS
    /\ ac.number_of_packets > MIN_PACKET_CHECK_THRESHOLD
         => ac.number_of_bytes >= MIN_PACKET_SIZE * ac.number_of_packets

\* sizes of a next read, around the limits of the rules
ProbeSizes ==
    {1, 2, MIN_PACKET_SIZE - 1, MIN_PACKET_SIZE, MIN_PACKET_SIZE + 1,
     MAX_BYTES - 1, MAX_BYTES, MAX_BYTES + 1}

\* C17: whenever the parser is called the counters of the guard are within
\* the three limits; so are those of every Reading machine, and whatever
\* the size (>= 1) of the next read the guard accepts it only within the
\* limits and never rejects it by the packet-count rule; 512 reads are
\* accepted only with 65536 bytes in total, and a 513th read is rejected by
\* the byte-count rule.
C17_PacketRuleNeverFirst ==
    /\ (Round /\ last.round.trace.parsed = 1)
         => /\ BytesSeen <= MAX_BYTES
            /\ PacketsSeen <= MAX_PACKETS
            /\ PacketsSeen > MIN_PACKET_CHECK_THRESHOLD
                 => BytesSeen >= MIN_PACKET_SIZE * PacketsSeen
            /\ PacketsSeen = MAX_PACKETS => BytesSeen = MAX_BYTES
    /\ Observed
         => /\ last.round.trace.rule # "MAX_PACKETS"
            /\ PacketsSeen <= MAX_PACKETS + 1
            /\ PacketsSeen = MAX_PACKETS + 1
                 => /\ last.round.err = "AttackAttempt"
                    /\ last.round.trace.rule = "MAX_BYTES"
    /\ MachineNow.state = "Reading"
         => /\ Accepted(MachineNow.attack_check)
            /\ \A size \in ProbeSizes :
                 /\ check_incoming_packet_size(MachineNow.attack_check,
                                               size).rule # "MAX_PACKETS"
                 /\ check_incoming_packet_size(MachineNow.attack_check,
                                               size).err = "None"
                      => Accepted(check_incoming_packet_size(
                                     MachineNow.attack_check, size).ac)

\* the 513th read, of one byte, after 512 reads of 128 bytes
C17_Witness ==
    /\ Observed
    /\ PacketsSeen = MAX_PACKETS + 1
    /\ last.round.trace.count = 1
    /\ last.round.trace.rule = "MAX_BYTES"

(* ------------------------------- C18 ---------------------------------- *)
\* C18: in every Reading machine the buffer holds, in order, all the bytes
\* read in the stage (what the peer's stream has delivered since the stage
\* began); the guard's byte counter is the length of the buffer and its
\* packet counter the number of reads of the stage that brought bytes;
\* bytes leave the buffer only in the round that ends the stage, which
\* hands on what follows the message as the tail.
C18_CountersMatchBuffer ==
    /\ MachineNow.state = "Reading"
         => /\ MachineNow.buf = hist.received
            /\ BCat(hist.received, StreamNow.inp) = hist.inp0
            /\ MachineNow.attack_check.number_of_bytes = BLen(MachineNow.buf)
            /\ MachineNow.attack_check.number_of_packets = hist.reads
    /\ (Round /\ last.before.machine.state = "Reading"
        /\ last.round.res \in {"WouldBlock", "Incomplete"})
         => /\ last.round.machine.buf
                 = BCat(last.before.machine.buf,
                        BTake(last.before.stream.inp, last.round.trace.count))
            /\ BLen(last.round.machine.buf)
                 = BLen(last.before.machine.buf) + last.round.trace.count
    /\ EndedReading
         => /\ BytesSeen = BLen(last.hist.received)
            /\ PacketsSeen = last.hist.reads
            /\ \E size \in 1..BLen(last.hist.received) :
                 last.round.stage.tail = BDrop(last.hist.received, size)

\* a Reading machine after several reads of different sizes
C18_Witness ==
    /\ MachineNow.state = "Reading"
    /\ hist.reads >= 2
    /\ MachineNow.attack_check.number_of_bytes > hist.reads
    /\ last.round.res = "Incomplete"

(* ------------------------------- C19 ---------------------------------- *)
\* C19: every Writing machine a round returns has an unflushed byte left
\* and its flushed position within the payload; a round fails the
\* has-remaining assertion only as the first round of a machine whose
\* payload is empty, the size assertion only when the write reported 0
\* bytes, and never advances the cursor past the end.
C19_WritingAssertionsHold ==
    /\ (Round /\ last.before.machine.state = "Writing"
        /\ last.round.res \in {"WouldBlock", "Incomplete"})
         => /\ has_remaining(last.round.machine.cursor)
            /\ last.round.machine.cursor.pos
                 < BLen(last.round.machine.cursor.data)
            /\ last.round.machine.cursor.pos = last.hist.wsum
    /\ (MachineNow.state = "Writing" /\ BLen(MachineNow.cursor.data) > 0)
         => MachineNow.cursor.pos < BLen(MachineNow.cursor.data)
    /\ pc = "panic"
         => /\ Round
            /\ last.round.res = "Panic"
            /\ last.before.machine.state = "Writing"
            /\ last.round.err \in {"assert_has_remaining", "assert_size"}
            /\ last.round.err = "assert_has_remaining"
                 => /\ BLen(last.before.machine.cursor.data) = 0
                    /\ last.before.machine.cursor.pos = 0
                    /\ last.round.trace.io = "none"
            /\ last.round.err = "assert_size"
                 => /\ last.io = Ok(0)
                    /\ BLen(last.before.machine.cursor.data) > 0
    /\ (Round /\ last.round.res = "Panic") => pc = "panic"

\* a payload of several bytes: the machine returned when all but the last
\* byte are out
C19_Witness ==
    /\ Round
    /\ last.before.machine.state = "Writing"
    /\ last.round.res = "Incomplete"
    /\ last.io = Ok(1)
    /\ BLen(last.round.machine.cursor.data) >= 2
    /\ last.round.machine.cursor.pos + 1
         = BLen(last.round.machine.cursor.data)

(* ---------------- short handshakes and the flooded one ----------------- *)
CallInit == Init \/ GuardInit

CallSpec == CallInit /\ [][Next]_vars

(* ------------------------------- C20 ---------------------------------- *)
\* what is left of the stage of machine m: the reads the guard can still
\* count, or the bytes still to be flushed
Left(m) ==
    IF m.state = "Reading"
    THEN MAX_PACKETS + 1 - m.attack_check.number_of_packets
    ELSE IF m.state = "Writing" THEN BLen(m.cursor.data) - m.cursor.pos
    ELSE 0

\* A reading stage has at most MAX_PACKETS + 1 reads that bring bytes, and
\* after the last of them it is over; a writing stage over N bytes has at
\* most N writes that take bytes, each taking at least one, and after N
\* bytes it is over with DoneWriting.
C20_StagesBounded ==
    /\ hist.reads <= MAX_PACKETS + 1
    /\ MachineNow.state = "Reading" => hist.reads <= MAX_PACKETS
    /\ hist.writes <= hist.wsum
    /\ hist.wsum <= BLen(hist.payload)
    /\ (MachineNow.state = "Writing" /\ BLen(hist.payload) > 0)
         => hist.writes < BLen(hist.payload)
    /\ EndedWriting
         => /\ last.hist.writes <= BLen(last.hist.payload)
            /\ last.hist.wsum = BLen(last.hist.payload)
            /\ BLen(last.hist.payload) > 0

\* A pass of the loop that does not leave handshake() makes progress: an
\* Incomplete round leaves less of its stage than there was, a finished
\* stage adds one to the stages of the role (which ends the handshake after
\* finitely many); and inside handshake() a next pass is always possible.
C20_LoopProgress ==
    /\ (Round /\ pc = "loop")
         => /\ last.round.res \in {"Incomplete", "StageFinished"}
            /\ last.round.res = "Incomplete"
                 => /\ Left(mach) < Left(last.before.machine)
                    /\ Left(mach) >= 1
            /\ last.round.res = "StageFinished"
                 => /\ self.role.stages = last.before.role.stages + 1
                    /\ self.role.stages < MaxStages
    /\ pc = "loop" => ENABLED (ReadingRound \/ WritingRound)
    /\ (Round /\ last.round.res \in {"WouldBlock", "Err"})
         => pc \in {"caller", "done"}

\* handshake() has returned: Ok, Interrupted or Failure
Returned ==
    /\ pc \in {"caller", "done"}
    /\ ret.kind \in {"Ok", "Interrupted", "Failure"}

\* an assertion of the Writing branch has failed: the call does not return
AssertionFailed ==
    /\ pc = "panic"
    /\ last.round.err \in {"assert_has_remaining", "assert_size"}
    /\ ~ENABLED Next

\* C20 (as stated): the stages are bounded in rounds that make progress,
\* and every call of handshake() returns: a pass of the loop makes progress
\* or ends the call with Ok, Interrupted or Failure.
C20_EveryCallReturns ==
    /\ C20_StagesBounded
    /\ C20_LoopProgress
    /\ (Round /\ pc # "loop") => Returned

\* C20 (amended): the same, but a call ends by returning or in a failed
\* assertion of the Writing branch (an empty payload, or a write that
\* reports 0 bytes).
C20_EveryCallReturnsOrPanics ==
    /\ C20_StagesBounded
    /\ C20_LoopProgress
    /\ (Round /\ pc # "loop") => (Returned \/ AssertionFailed)

\* a call that returns Failure at the 513th read of its reading stage
C20_Witness ==
    /\ Returned
    /\ ret.kind = "Failure"
    /\ last.hist.reads = MAX_PACKETS + 1

(* ------------------------ deriving accept keys ------------------------ *)
MaxKeyLen == 4

\* the request key of RFC 6455 and of tests::key_conversion, and its
\* accept key
RfcKey ==
    <<"d", "G", "h", "l", "I", "H", "N", "h", "b", "X", "B", "s",
      "Z", "S", "B", "u", "b", "2", "5", "j", "Z", "Q", "=", "=">>

RfcAcceptKey ==
    <<"s", "3", "p", "P", "L", "M", "B", "i", "T", "x", "a", "Q",
      "9", "k", "Y", "G", "z", "z", "h", "Z", "R", "b", "K", "+",
      "x", "O", "o", "=">>

RequestKeys == {RfcKey} \cup SeqsUpTo({"A", "z", "="}, MaxKeyLen)

KeyInit ==
    /\ MidInit(start_read, Empty)
    /\ \E k \in RequestKeys :
         accept = [request_key |-> k, accept_key |-> <<>>, derived |-> FALSE]

\* derive_accept_key(request_key)
DeriveAcceptKey ==
    /\ ~accept.derived
    /\ accept' = [accept EXCEPT
                    !.accept_key =
                       derive_accept_key(as_bytes(accept.request_key)),
                    !.derived = TRUE]
    /\ UNCHANGED <<pc, held, self, mach, ret, non, last, hist>>

KeySpec == KeyInit /\ [][DeriveAcceptKey]_vars

(* ------------------------------- C13 ---------------------------------- *)
\* C13: the accept key derived from the request key
\* "dGhlIHNhbXBsZSBub25jZQ==" is "s3pPLMBiTxaQ9kYGzzhZRbK+xOo="; every
\* accept key is the base64 text of a digest of 20 bytes: 27 characters of
\* the alphabet and one "=".
C13_KeyConversion ==
    accept.derived
      => /\ accept.request_key = RfcKey => accept.accept_key = RfcAcceptKey
         /\ accept.request_key # RfcKey => accept.accept_key # RfcAcceptKey
         /\ Len(accept.accept_key) = 28
         /\ accept.accept_key[28] = "="
         /\ \A i \in 1..27 :
              \E j \in 1..64 : accept.accept_key[i] = STANDARD_ALPHABET[j]

\* the accept key of the RFC's request key has been derived
C13_Witness ==
    /\ accept.derived
    /\ accept.request_key = RfcKey
    /\ accept.accept_key = RfcAcceptKey

====
